---------------------------- MODULE Spec2Model ----------------------------
(***************************************************************************)
(* A model of fmoe/megatron.py: the adaptor that puts FastMoE layers into  *)
(* a Megatron-LM model.                                                    *)
(*                                                                         *)
(*   Spec      fmoefy: argument resolution, the two assertions, the loop   *)
(*             over the transformer layers, MegatronMLP.__init__           *)
(*   SpecSeed  MegatronMLP.reset_parameters on the ranks of one job        *)
(*   SpecRng   _random_init_weight on two modules of one shape             *)
(*   SpecDDP   DistributedDataParallel's checkpoint methods, next to the   *)
(*             same calls made on the inner module itself                  *)
(*                                                                         *)
(* Python values: an integer is itself, True and False are 1 and 0, None   *)
(* and "the namespace has no such attribute" are the two values below.     *)
(***************************************************************************)
EXTENDS Integers, Sequences, FiniteSets

\* Python's None: the default of fmoefy's num_experts, hidden_hidden_size
\* and top_k parameters, and what a caller passes for distributed_experts
\* to keep the namespace's value.
None == -1

\* The value of a namespace key that the namespace does not hold:
\* ('k' in args) and hasattr(args, 'k') are both args.k # Absent.
Absent == -2

True == 1

False == 0

---------------------------------------------------------------------------
(* Bounds of the model *)

\* The longest transformer layer list the model walks.
MaxLayers == 2

\* The largest rank of a job.
MaxRank == 2

\* The largest extent of one tensor dimension.
MaxDim == 2

---------------------------------------------------------------------------
(* Name resolution *)

\* The names bound in the module's global scope: what lines 6-10 import and
\* what the module's own class and def statements define.
ModuleGlobals ==
    { "nn", "FMoETransformerMLP", "DistributedGroupedDataParallel",
      "get_torch_default_comm", "_FakeMegatronMLP", "_random_init_weight",
      "MegatronMLP", "fmoefy", "DistributedDataParallel" }

\* A global name evaluates when the module binds it; it raises NameError
\* otherwise (none of np, math, torch, F is a builtin).
Bound(name) == name \in ModuleGlobals

---------------------------------------------------------------------------
VARIABLES
    \* fmoefy
    args,        \* megatron.get_args(): the global argument namespace
    layers,      \* model.language_model.transformer.layers
    pc,          \* where the fmoefy call stands: idle, resolve, loop, done
    idx,         \* the layer the for loop is at
    params,      \* the arguments of the call in progress (or last made)
    err,         \* the exception that ended the last call, "none" if none
    baseInit,    \* arguments of the last FMoETransformerMLP.__init__ call
    argsPre,     \* args at the entry of the call
    layersPre,   \* layers at the entry of the call
    \* reset_parameters
    seed,        \* rank -> seed given to default_rng, Absent before/without
    rdone,       \* rank -> reset_parameters has ended
    rerr,        \* rank -> the exception that ended it
    draws,       \* rank -> what np.random.randint(2048) returned there
    rexperts,    \* rank -> self.experts of the layer on that rank
    \* _random_init_weight
    mods,        \* run -> the module: shape, weight, bias
    rng,         \* run -> state of the generator handed in
    rng0,        \* run -> the seed of that generator
    wdone,       \* run -> the call has ended
    werr,        \* run -> the exception that ended it
    \* DistributedDataParallel
    ddp,         \* the wrapper: [module |-> state of the inner module]
    direct,      \* an equal inner module, used without the wrapper
    resW,        \* result of the last call on the wrapper
    resD,        \* result of the same call on the bare module
    lastCall     \* the last call made

fvars == <<args, layers, pc, idx, params, err, baseInit, argsPre, layersPre>>

svars == <<seed, rdone, rerr, draws, rexperts>>

rvars == <<mods, rng, rng0, wdone, werr>>

dvars == <<ddp, direct, resW, resD, lastCall>>

vars == <<fvars, svars, rvars, dvars>>

---------------------------------------------------------------------------
(* numpy's Generator, as far as the code uses it.  Reals are fixed-point   *)
(* thousandths; the generator is a small linear congruential one, so that  *)
(* equal seeds give equal streams and a draw moves the state.              *)

\* np.random.default_rng(seed): a generator whose stream the seed decides.
default_rng(s) == s % 16

RngStep(g) == (5 * g + 3) % 16

\* rng.uniform(lo, hi, size): n draws in [lo, hi), each moving the state.
RECURSIVE uniform(_, _, _, _)
uniform(g, lo, hi, n) ==
    IF n = 0 THEN [vals |-> << >>, g |-> g]
    ELSE LET g1   == RngStep(g)
             rest == uniform(g1, lo, hi, n - 1)
         IN  [vals |-> <<lo + ((hi - lo) * g1) \div 16>> \o rest.vals,
              g    |-> rest.g]

\* math.sqrt on thousandths squared: the floor of the root.
ISqrt(x) == CHOOSE r \in 0..2000 : r * r <= x /\ x < (r + 1) * (r + 1)

\* Number of elements of a tensor of the given size.
RECURSIVE Numel(_)
Numel(size) == IF size = << >> THEN 1 ELSE Head(size) * Numel(Tail(size))

\* What a linear-like module holds without a bias (self.bias is None).
NoBias == << >>

\* A module with weight of size <<E, out, in>> and bias of size <<E, out>>,
\* every element holding `fill`.
Linear(E, out, in, hasBias, fill) ==
    [wsize  |-> <<E, out, in>>,
     weight |-> [i \in 1..(E * out * in) |-> fill],
     hasBias |-> hasBias,
     bias   |-> IF hasBias THEN [i \in 1..(E * out) |-> fill] ELSE NoBias]

\* nn.init._calculate_fan_in_and_fan_out(self.weight[0])[0]: weight[0] has
\* size <<out, in>>, whose fan-in is its second extent.
FanIn(m) == m.wsize[3]

\* _random_init_weight(self, rng) with self = m and rng in state g: the
\* exception raised ("none" if none), the module and the generator after.
\* Line 32 reads nn only; line 33 is the first to read math.
_random_init_weight(m, g) ==
    LET fan == FanIn(m)
    IN  IF ~Bound("math") THEN [err |-> "NameError", m |-> m, g |-> g]
        ELSE
        LET \* gain^2 = 2 / (1 + sqrt(5)^2), bound = sqrt(3) * gain / sqrt(fan)
            bound == ISqrt((3 * 2 * 1000000) \div ((1 + 5) * fan))
            w     == uniform(g, -bound, bound, Numel(m.wsize))
        IN  IF ~Bound("torch") THEN [err |-> "NameError", m |-> m, g |-> w.g]
            ELSE
            LET m1 == [m EXCEPT !.weight = w.vals]
            IN  IF ~m.hasBias THEN [err |-> "none", m |-> m1, g |-> w.g]
                ELSE
                LET bbound == ISqrt(1000000 \div FanIn(m1))
                    b == uniform(w.g, -bbound, bbound, Len(m.bias))
                IN  [err |-> "none",
                     m   |-> [m1 EXCEPT !.bias = b.vals],
                     g   |-> b.g]

\* MegatronMLP.reset_parameters(self) with self.rank = rank, when
\* np.random.randint(2048) would return draw: the exception raised, the
\* seed handed to default_rng (Absent when none was) and the experts after.
reset_parameters(rank, draw, experts) ==
    IF ~Bound("np")
    THEN [err |-> "NameError", seed |-> Absent, experts |-> experts]
    ELSE
    LET s  == draw + rank
        g0 == default_rng(s)
        r1 == _random_init_weight(experts.htoh4, g0)
    IN  IF r1.err # "none"
        THEN [err |-> r1.err, seed |-> s, experts |-> experts]
        ELSE
        LET r2 == _random_init_weight(experts.h4toh, r1.g)
        IN  [err     |-> r2.err,
             seed    |-> s,
             experts |-> [htoh4 |-> r1.m,
                          h4toh |-> IF r2.err = "none" THEN r2.m
                                    ELSE experts.h4toh]]

---------------------------------------------------------------------------
(* MegatronMLP *)

\* The assertion left out.
Divisible_Unchecked(a) == TRUE

\* The assertion of MegatronMLP.__init__: * and % associate to the left, so
\* the product is what is reduced.
Divisible(a) ==
    (a.seq_length * a.micro_batch_size) % a.tensor_model_parallel_size = 0

\* Python's truth value of an argument value: 0 (False) and None are false.
Truthy(v) == v # False /\ v # None

\* The branch forgotten: the experts always span the world.
ExpertWorldSize_Always(a) == a.world_size

\* The world_size passed to FMoETransformerMLP.__init__ (lines 57-60).
ExpertWorldSize(a) ==
    IF ~Truthy(a.distributed_experts) THEN 1 ELSE a.world_size

\* The expert_dp_comm passed to FMoETransformerMLP.__init__.
ExpertDpComm(a) ==
    IF Truthy(a.distributed_experts) THEN "none" ELSE "dp"

\* No FMoETransformerMLP.__init__ call has been made.
NoBase == [called |-> FALSE]

\* The super().__init__ call of lines 61-65.
BaseInitCall(a, group) ==
    [called         |-> TRUE,
     num_expert     |-> a.num_experts,
     top_k          |-> a.top_k,
     d_model        |-> a.hidden_size,
     d_hidden       |-> a.hidden_hidden_size,
     world_size     |-> ExpertWorldSize(a),
     mp_group       |-> group,
     expert_dp_comm |-> ExpertDpComm(a)]

\* self.experts as the base class leaves it: two expert-batched linear maps.
BaseExperts(a) ==
    [htoh4 |-> Linear(a.num_experts, a.hidden_hidden_size, a.hidden_size,
                      TRUE, 0),
     h4toh |-> Linear(a.num_experts, a.hidden_size, a.hidden_hidden_size,
                      TRUE, 0)]

\* MegatronMLP(args, group): the exception raised ("none" if none), the
\* base-class call made (NoBase if none was) and the object built.
MegatronMLP_init(a, group, draw) ==
    IF ~Divisible(a)
    THEN [err |-> "AssertionError: divisibility", base |-> NoBase]
    ELSE IF a.distributed_experts = Absent
    THEN [err |-> "AttributeError", base |-> NoBase]
    ELSE
    LET base == BaseInitCall(a, group)
        rp   == reset_parameters(a.rank, draw, BaseExperts(a))
    IN  [err  |-> rp.err,
         base |-> base,
         obj  |-> [cls         |-> "MegatronMLP",
                   base        |-> base,
                   hidden_size |-> a.hidden_size,
                   rank        |-> a.rank,
                   experts     |-> rp.experts]]

---------------------------------------------------------------------------
(* fmoefy *)

\* The MLP a Megatron layer is built with.
ParallelMLP == [cls |-> "ParallelMLP"]

\* mpu.get_model_parallel_group()
ModelParallelGroup == "model_parallel_group"

\* The override taken only when the namespace has no expert count yet.
SetNumExperts_KeepExisting(a, p) ==
    IF p.num_experts # None /\ a.num_experts = Absent
    THEN [a EXCEPT !.num_experts = p.num_experts]
    ELSE a

\* Lines 104-105: the num_experts override.
SetNumExperts(a, p) ==
    IF p.num_experts # None THEN [a EXCEPT !.num_experts = p.num_experts]
    ELSE a

\* Lines 106-108: the assertion on the expert count.
NumExpertsKnown(a) == a.num_experts # Absent

\* The default taken as twice the hidden size.
ResolveHidden_Twice(a, p) ==
    IF p.hidden_hidden_size # None
    THEN [a EXCEPT !.hidden_hidden_size = p.hidden_hidden_size]
    ELSE IF a.hidden_hidden_size = Absent
    THEN [a EXCEPT !.hidden_hidden_size = a.hidden_size * 2]
    ELSE a

\* Lines 110-113
ResolveHidden(a, p) ==
    IF p.hidden_hidden_size # None
    THEN [a EXCEPT !.hidden_hidden_size = p.hidden_hidden_size]
    ELSE IF a.hidden_hidden_size = Absent
    THEN [a EXCEPT !.hidden_hidden_size = a.hidden_size * 4]
    ELSE a

\* Lines 115-118
ResolveTopK(a, p) ==
    IF p.top_k # None THEN [a EXCEPT !.top_k = p.top_k]
    ELSE IF a.top_k = Absent THEN [a EXCEPT !.top_k = 2]
    ELSE a

\* The argument written whatever it is, None included.
ResolveDistributed_Unguarded(a, p) ==
    [a EXCEPT !.distributed_experts = p.distributed_experts]

\* Lines 120-122
ResolveDistributed(a, p) ==
    IF p.distributed_experts # None
    THEN [a EXCEPT !.distributed_experts = p.distributed_experts]
    ELSE a

\* Lines 110-122, in the order of the code.
ResolveArgs(a, p) == ResolveDistributed(ResolveTopK(ResolveHidden(a, p), p), p)

\* What a caller may pass; leaving distributed_experts out passes True.
Params ==
    [num_experts        : {None, 4},
     distributed_experts: {None, True, False},
     hidden_hidden_size : {None, 16},
     top_k              : {None, 3}]

\* The namespaces the host may hand over: the host's own keys are set, the
\* four this module adds may be missing.
InitArgs ==
    [num_experts               : {Absent, 2},
     hidden_size               : {2, 3},
     hidden_hidden_size        : {Absent, 6},
     top_k                     : {Absent, 1},
     distributed_experts       : {Absent, True, False},
     world_size                : {2, 4},
     rank                      : {0},
     seq_length                : {3},
     micro_batch_size          : {1, 2},
     tensor_model_parallel_size: {2}]

\* A layer: its place in the list when built, its mlp, and the rest of it.
Layer(i) == [id |-> i, mlp |-> ParallelMLP, attention |-> "attn"]

\* The assertion on the expert count made after the resolution of the
\* other arguments instead of before it.
FmoefyCall_LateAssert(p) ==
    /\ pc \in {"idle", "done"}
    /\ params' = p
    /\ argsPre' = args
    /\ layersPre' = layers
    /\ baseInit' = NoBase
    /\ idx' = 1
    /\ args' = ResolveArgs(SetNumExperts(args, p), p)
    /\ IF NumExpertsKnown(args')
       THEN pc' = "loop" /\ err' = "none"
       ELSE pc' = "done" /\ err' = "AssertionError: num_experts"
    /\ UNCHANGED layers
    /\ UNCHANGED <<svars, rvars, dvars>>

\* Entry of fmoefy to the expert-count assertion (lines 101-108).
FmoefyCall(p) ==
    /\ pc \in {"idle", "done"}
    /\ params' = p
    /\ argsPre' = args
    /\ layersPre' = layers
    /\ baseInit' = NoBase
    /\ idx' = 1
    /\ args' = SetNumExperts(args, p)
    /\ IF NumExpertsKnown(args')
       THEN pc' = "resolve" /\ err' = "none"
       ELSE pc' = "done" /\ err' = "AssertionError: num_experts"
    /\ UNCHANGED layers
    /\ UNCHANGED <<svars, rvars, dvars>>

\* Lines 110-122.
FmoefyResolve ==
    /\ pc = "resolve"
    /\ args' = ResolveArgs(args, params)
    /\ pc' = "loop"
    /\ UNCHANGED <<layers, idx, params, err, baseInit, argsPre, layersPre>>
    /\ UNCHANGED <<svars, rvars, dvars>>

\* One turn of the loop of lines 124-125: the adapter is built, and only
\* when its constructor returns is it stored in the layer.
FmoefyLoop(draw) ==
    /\ pc = "loop"
    /\ idx <= Len(layers)
    /\ LET r == MegatronMLP_init(args, ModelParallelGroup, draw)
       IN  /\ baseInit' = IF r.base.called THEN r.base ELSE baseInit
           /\ IF r.err = "none"
              THEN /\ layers' = [layers EXCEPT ![idx].mlp = r.obj]
                   /\ idx' = idx + 1
                   /\ UNCHANGED <<pc, err>>
              ELSE /\ err' = r.err
                   /\ pc' = "done"
                   /\ UNCHANGED <<layers, idx>>
    /\ UNCHANGED <<args, params, argsPre, layersPre>>
    /\ UNCHANGED <<svars, rvars, dvars>>

\* Line 126: the loop is over, the model is returned.
FmoefyReturn ==
    /\ pc = "loop"
    /\ idx > Len(layers)
    /\ pc' = "done"
    /\ UNCHANGED <<args, layers, idx, params, err, baseInit, argsPre,
                   layersPre>>
    /\ UNCHANGED <<svars, rvars, dvars>>

---------------------------------------------------------------------------
(* reset_parameters on the ranks of a job *)

Ranks == 0..MaxRank

\* np.random.randint(2048) returns one of 0..2047.
RandBound == 2048

\* The draws the model tries: both ends of the range and two neighbours.
Draws == {0, 1, 2, RandBound - 1}

\* The same layer on rank r: self.rank = r, reset_parameters runs once.
ResetParameters(r, d) ==
    /\ ~rdone[r]
    /\ LET rp == reset_parameters(r, d, rexperts[r])
       IN  /\ seed' = [seed EXCEPT ![r] = rp.seed]
           /\ rerr' = [rerr EXCEPT ![r] = rp.err]
           /\ rexperts' = [rexperts EXCEPT ![r] = rp.experts]
    /\ draws' = [draws EXCEPT ![r] = d]
    /\ rdone' = [rdone EXCEPT ![r] = TRUE]
    /\ UNCHANGED <<fvars, rvars, dvars>>

---------------------------------------------------------------------------
(* _random_init_weight on two modules *)

Runs == {1, 2}

Dims == 1..MaxDim

\* One call of _random_init_weight(mods[k], rng[k]).
RandomInitWeight(k) ==
    /\ ~wdone[k]
    /\ LET r == _random_init_weight(mods[k], rng[k])
       IN  /\ mods' = [mods EXCEPT ![k] = r.m]
           /\ rng'  = [rng EXCEPT ![k] = r.g]
           /\ werr' = [werr EXCEPT ![k] = r.err]
    /\ wdone' = [wdone EXCEPT ![k] = TRUE]
    /\ UNCHANGED rng0
    /\ UNCHANGED <<fvars, svars, dvars>>

---------------------------------------------------------------------------
(* DistributedDataParallel *)

\* The parameters of the inner module, and the values one may hold.
ParamKeys == {"w", "b"}

ParamVals == {0, 1}

\* A key no module has, as a stale checkpoint may hold.
StateKeys == ParamKeys \cup {"x"}

\* torch.nn.Module.state_dict(prefix=...) of a module in state m: each
\* parameter under prefix + name.
Module_state_dict(m, prefix) ==
    [k \in {<<prefix, n>> : n \in ParamKeys} |-> m[k[2]]]

\* Megatron's state_dict_for_save_checkpoint: the state under the name of
\* the language model.
Module_state_dict_for_save_checkpoint(m, prefix) ==
    [language_model |-> Module_state_dict(m, prefix)]

\* torch.nn.Module.load_state_dict(sd, strict): the parameters sd names are
\* copied, then a strict call raises when keys are missing or unexpected.
Module_load_state_dict(m, sd, strict) ==
    LET missing    == ParamKeys \ DOMAIN sd
        unexpected == (DOMAIN sd) \ ParamKeys
    IN  [m   |-> [n \in ParamKeys |-> IF n \in DOMAIN sd THEN sd[n] ELSE m[n]],
         res |-> [raised     |-> strict /\ (missing \cup unexpected) # {},
                  missing    |-> missing,
                  unexpected |-> unexpected]]

\* DistributedDataParallel.state_dict(*args, **kwargs), line 147.
DDP_state_dict(w, prefix) == Module_state_dict(w.module, prefix)

\* DistributedDataParallel.state_dict_for_save_checkpoint, line 153.
DDP_state_dict_for_save_checkpoint(w, prefix) ==
    Module_state_dict_for_save_checkpoint(w.module, prefix)

\* The method not overridden: torch.nn.Module.load_state_dict on the
\* wrapper itself, whose own parameters are module.w and module.b, so that
\* no key of sd is one of them and nothing is copied.
DDP_load_state_dict_Inherited(w, sd, strict) ==
    [w   |-> w,
     res |-> [raised     |-> strict,
              missing    |-> {"module.w", "module.b"},
              unexpected |-> DOMAIN sd]]

\* DistributedDataParallel.load_state_dict, line 159: the result, and the
\* wrapper after the call.
DDP_load_state_dict(w, sd, strict) ==
    LET r == Module_load_state_dict(w.module, sd, strict)
    IN  [w |-> [w EXCEPT !.module = r.m], res |-> r.res]

Prefixes == {"", "model."}

\* The state dictionaries a caller may load.
StateDicts == UNION {[K -> ParamVals] : K \in SUBSET StateKeys}

NoCall == [method |-> "none"]

CallStateDict(prefix) ==
    /\ resW' = DDP_state_dict(ddp, prefix)
    /\ resD' = Module_state_dict(direct, prefix)
    /\ lastCall' = [method |-> "state_dict", prefix |-> prefix]
    /\ UNCHANGED <<ddp, direct>>
    /\ UNCHANGED <<fvars, svars, rvars>>

CallStateDictForSave(prefix) ==
    /\ resW' = DDP_state_dict_for_save_checkpoint(ddp, prefix)
    /\ resD' = Module_state_dict_for_save_checkpoint(direct, prefix)
    /\ lastCall' = [method |-> "state_dict_for_save_checkpoint",
                    prefix |-> prefix]
    /\ UNCHANGED <<ddp, direct>>
    /\ UNCHANGED <<fvars, svars, rvars>>

CallLoadStateDict(sd, strict) ==
    /\ LET rw == DDP_load_state_dict(ddp, sd, strict)
           rd == Module_load_state_dict(direct, sd, strict)
       IN  /\ ddp' = rw.w
           /\ resW' = rw.res
           /\ direct' = rd.m
           /\ resD' = rd.res
    /\ lastCall' = [method |-> "load_state_dict", sd |-> sd,
                    strict |-> strict]
    /\ UNCHANGED <<fvars, svars, rvars>>

---------------------------------------------------------------------------
(* The specifications *)

FIdle ==
    /\ args = [num_experts |-> Absent, hidden_size |-> 2,
               hidden_hidden_size |-> Absent, top_k |-> Absent,
               distributed_experts |-> Absent, world_size |-> 2, rank |-> 0,
               seq_length |-> 3, micro_batch_size |-> 1,
               tensor_model_parallel_size |-> 2]
    /\ layers = << >>
    /\ pc = "off"
    /\ idx = 1
    /\ params = [num_experts |-> None, distributed_experts |-> None,
                 hidden_hidden_size |-> None, top_k |-> None]
    /\ err = "none"
    /\ baseInit = NoBase
    /\ argsPre = args
    /\ layersPre = layers

SIdle ==
    /\ seed = [r \in Ranks |-> Absent]
    /\ rdone = [r \in Ranks |-> TRUE]
    /\ rerr = [r \in Ranks |-> "none"]
    /\ draws = [r \in Ranks |-> 0]
    /\ rexperts = [r \in Ranks |-> [htoh4 |-> Linear(1, 2, 1, TRUE, 0),
                                    h4toh |-> Linear(1, 1, 2, TRUE, 0)]]

RIdle ==
    /\ mods = [k \in Runs |-> Linear(1, 1, 1, FALSE, 0)]
    /\ rng = [k \in Runs |-> 0]
    /\ rng0 = [k \in Runs |-> 0]
    /\ wdone = [k \in Runs |-> TRUE]
    /\ werr = [k \in Runs |-> "none"]

DIdle ==
    /\ ddp = [module |-> [n \in ParamKeys |-> 0]]
    /\ direct = [n \in ParamKeys |-> 0]
    /\ resW = NoCall
    /\ resD = NoCall
    /\ lastCall = [method |-> "off"]

\* fmoefy: any namespace of InitArgs, any layer list up to MaxLayers.
FInit ==
    /\ args \in InitArgs
    /\ \E n \in 0..MaxLayers : layers = [i \in 1..n |-> Layer(i)]
    /\ pc = "idle"
    /\ idx = 1
    /\ params = [num_experts |-> None, distributed_experts |-> None,
                 hidden_hidden_size |-> None, top_k |-> None]
    /\ err = "none"
    /\ baseInit = NoBase
    /\ argsPre = args
    /\ layersPre = layers

Init == FInit /\ SIdle /\ RIdle /\ DIdle

Next ==
    \/ \E p \in Params : FmoefyCall(p)
    \/ FmoefyResolve
    \/ \E d \in {0, RandBound - 1} : FmoefyLoop(d)
    \/ FmoefyReturn

Spec == Init /\ [][Next]_vars

\* reset_parameters of one layer on every rank of the job.
SInit ==
    /\ seed = [r \in Ranks |-> Absent]
    /\ rdone = [r \in Ranks |-> FALSE]
    /\ rerr = [r \in Ranks |-> "none"]
    /\ draws = [r \in Ranks |-> 0]
    /\ \E f \in {0, 1} :
         rexperts = [r \in Ranks |-> [htoh4 |-> Linear(1, 2, 1, TRUE, f),
                                      h4toh |-> Linear(1, 1, 2, TRUE, f)]]

NextSeed == \E r \in Ranks, d \in Draws : ResetParameters(r, d)

InitSeed == SInit /\ FIdle /\ RIdle /\ DIdle

SpecSeed == InitSeed /\ [][NextSeed]_vars

\* _random_init_weight on two modules of one shape, whatever they held.
RInit ==
    /\ \E E \in Dims, out \in Dims, in \in Dims, hb \in BOOLEAN :
         \E f \in [Runs -> {0, 500}] :
           mods = [k \in Runs |-> Linear(E, out, in, hb, f[k])]
    /\ rng0 \in [Runs -> 0..3]
    /\ rng = [k \in Runs |-> default_rng(rng0[k])]
    /\ wdone = [k \in Runs |-> FALSE]
    /\ werr = [k \in Runs |-> "none"]

NextRng == \E k \in Runs : RandomInitWeight(k)

InitRng == RInit /\ FIdle /\ SIdle /\ DIdle

SpecRng == InitRng /\ [][NextRng]_vars

\* The wrapper and a bare module start in the same state.
DInit ==
    /\ direct \in [ParamKeys -> ParamVals]
    /\ ddp = [module |-> direct]
    /\ resW = NoCall
    /\ resD = NoCall
    /\ lastCall = NoCall

NextDDP ==
    \/ \E prefix \in Prefixes : CallStateDict(prefix)
    \/ \E prefix \in Prefixes : CallStateDictForSave(prefix)
    \/ \E sd \in StateDicts, strict \in BOOLEAN : CallLoadStateDict(sd, strict)

InitDDP == DInit /\ FIdle /\ SIdle /\ RIdle

SpecDDP == InitDDP /\ [][NextDDP]_vars

---------------------------------------------------------------------------
(* The claims *)

\* The (seq_length * micro_batch_size) mod tensor_model_parallel_size of
\* the namespace; fmoefy writes none of the three.
BatchRemainder ==
    (args.seq_length * args.micro_batch_size)
        % args.tensor_model_parallel_size

\* The layers whose mlp is a MegatronMLP.
Replaced == {i \in 1..Len(layers) : layers[i].mlp.cls = "MegatronMLP"}

\* Nothing of the model but the layers' mlp differs from the entry of the
\* call: the list has its length and order, each layer its other fields.
FrameKept ==
    /\ Len(layers) = Len(layersPre)
    /\ \A i \in 1..Len(layers) :
         /\ layers[i].id = layersPre[i].id
         /\ layers[i].attention = layersPre[i].attention

\* The expert count can be told neither from the override nor from the
\* namespace as the call found it.
Unresolvable == params.num_experts = None /\ argsPre.num_experts = Absent

\* C1: a call of fmoefy whose expert count is resolvable and whose batch
\* is divisible succeeds, and after it every one of the N layers has a
\* MegatronMLP as its mlp (N replaced), the layer list and the layers'
\* other fields being as before.
C1_AllLayersReplaced ==
    (pc = "done" /\ ~Unresolvable /\ BatchRemainder = 0
       /\ args.distributed_experts # Absent)
    => /\ err = "none"
       /\ Cardinality(Replaced) = Len(layersPre)
       /\ FrameKept

\* C2 as stated: whenever the batch is not divisible, fmoefy fails and no
\* layer has been replaced, whatever the length of the layer list.
C2_NonDivisibleAlwaysFails ==
    (pc = "done" /\ BatchRemainder # 0)
    => (err # "none" /\ layers = layersPre)

\* C2 as amended: whenever the batch is not divisible and the layer list is
\* not empty, fmoefy fails on one of its two assertions and no layer has
\* been replaced, at the failure or at any moment before it.
C2_NonDivisibleFailsWithLayers ==
    (BatchRemainder # 0 /\ Len(layers) >= 1)
    => /\ layers = layersPre
       /\ pc = "done" => err \in {"AssertionError: divisibility",
                                  "AssertionError: num_experts"}

C2_Witness ==
    /\ pc = "done"
    /\ BatchRemainder # 0
    /\ Len(layers) >= 1
    /\ err = "AssertionError: divisibility"
    /\ layers = layersPre

C4_Defaults ==
    (pc \in {"loop", "done"} /\ err # "AssertionError: num_experts")
    => /\ (params.hidden_hidden_size = None
             /\ argsPre.hidden_hidden_size = Absent)
          => args.hidden_hidden_size = 4 * args.hidden_size
       /\ (params.top_k = None /\ argsPre.top_k = Absent)
          => args.top_k = 2

C4_Witness ==
    /\ pc = "loop"
    /\ params.hidden_hidden_size = None
    /\ argsPre.hidden_hidden_size = Absent
    /\ params.top_k = None
    /\ argsPre.top_k = Absent
    /\ args.hidden_size = 3
    /\ args.hidden_hidden_size = 12
    /\ args.top_k = 2

\* C5: the world_size MegatronMLP passes to its base class is 1 when
\* args.distributed_experts is false, whatever args.world_size, and
\* args.world_size when it is true; expert_dp_comm is 'dp' exactly in the
\* first case and 'none' in the second.
C5_ExpertParallelWidth ==
    baseInit.called
    => /\ args.distributed_experts = False
          => baseInit.world_size = 1 /\ baseInit.expert_dp_comm = "dp"
       /\ args.distributed_experts = True
          => /\ baseInit.world_size = args.world_size
             /\ baseInit.expert_dp_comm = "none"
       /\ baseInit.expert_dp_comm \in {"dp", "none"}

C5_Witness ==
    /\ baseInit.called
    /\ args.distributed_experts = False
    /\ args.world_size = 4
    /\ baseInit.world_size = 1
    /\ baseInit.expert_dp_comm = "dp"

\* C6: every state_dict, state_dict_for_save_checkpoint and
\* load_state_dict call on the wrapper returns what the same call on the
\* inner module returns and leaves the inner module as that call leaves
\* it; the wrapper holds nothing but the module.
C6_CheckpointForwarding ==
    /\ resW = resD
    /\ ddp.module = direct
    /\ DOMAIN ddp = {"module"}

C6_Witness ==
    /\ lastCall.method = "load_state_dict"
    /\ lastCall.strict
    /\ resW.raised
    /\ "w" \in DOMAIN lastCall.sd
    /\ ddp.module["w"] = 1
    /\ ddp.module["b"] = 0

\* C7: reset_parameters seeds its generator with the global draw plus the
\* rank, so two ranks whose global draws agree seed it differently.
C7_PerRankSeeds ==
    \A r1 \in Ranks : rdone[r1]
      => /\ seed[r1] = draws[r1] + r1
         /\ \A r2 \in Ranks :
              (rdone[r2] /\ r2 # r1 /\ draws[r2] = draws[r1])
              => seed[r2] # seed[r1]

\* C8: two calls of _random_init_weight with generators of one seed, on
\* modules of one shape, leave the same weight and the same bias, whatever
\* the modules held before.
C8_SameSeedSameTensors ==
    (wdone[1] /\ wdone[2] /\ rng0[1] = rng0[2])
    => /\ mods[1].weight = mods[2].weight
       /\ mods[1].bias = mods[2].bias

\* The three arguments resolved after the expert-count assertion.
Later == {"hidden_hidden_size", "top_k", "distributed_experts"}

\* C9 as stated: after a call, every argument that was not None is in the
\* namespace, and every key the call found set and was passed None for
\* holds what it held.
C9_OverrideAlwaysWritten ==
    pc = "done"
    => \A f \in Later \cup {"num_experts"} :
         /\ params[f] # None => args[f] = params[f]
         /\ (params[f] = None /\ argsPre[f] # Absent)
            => args[f] = argsPre[f]

\* C9 as amended: a num_experts that is not None is always written; a
\* hidden_hidden_size, top_k or distributed_experts that is not None is
\* written when the expert-count assertion passes, and the namespace is
\* left as found when it fails; an argument that is None leaves a value
\* the namespace holds unchanged.  So a step changes a value the namespace
\* holds only in a call that passes a value other than None for it.
C9_OverridePrecedence ==
    /\ [](pc = "done"
          => /\ params.num_experts # None
                => args.num_experts = params.num_experts
             /\ \A f \in Later :
                  IF err = "AssertionError: num_experts"
                  THEN args[f] = argsPre[f]
                  ELSE params[f] # None => args[f] = params[f]
             /\ \A f \in Later \cup {"num_experts"} :
                  (params[f] = None /\ argsPre[f] # Absent)
                  => args[f] = argsPre[f])
    /\ [][\A f \in Later \cup {"num_experts"} :
            (args[f] # Absent /\ args'[f] # args[f])
            => (params'[f] # None /\ args'[f] = params'[f])]_vars

C9_Witness ==
    /\ pc = "done"
    /\ err # "AssertionError: num_experts"
    /\ params.distributed_experts = None
    /\ argsPre.distributed_experts = False
    /\ args.distributed_experts = False
    /\ params.top_k = 3
    /\ argsPre.top_k = 1
    /\ args.top_k = 3

\* C10: a failure of the expert-count assertion leaves the namespace and
\* every mlp as the call found them; the divisibility assertion fails in
\* the construction of the first layer's adapter, with every mlp as found
\* and the namespace holding the resolved num_experts, hidden_hidden_size,
\* top_k and distributed_experts; the namespace does not change during the
\* loop; a call that has ended has replaced no layer or all of them.
C10_Ordering ==
    /\ err = "AssertionError: num_experts"
       => (args = argsPre /\ layers = layersPre)
    /\ err = "AssertionError: divisibility"
       => /\ layers = layersPre
          /\ idx = 1
          /\ args.num_experts # Absent
          /\ args.hidden_hidden_size # Absent
          /\ args.top_k # Absent
          /\ params.distributed_experts # None
             => args.distributed_experts = params.distributed_experts
    /\ (pc \in {"loop", "done"} /\ err # "AssertionError: num_experts")
       => args = ResolveArgs(SetNumExperts(argsPre, params), params)
    /\ pc = "done" => Cardinality(Replaced) \in {0, Len(layers)}

C10_Witness ==
    /\ pc = "done"
    /\ err = "AssertionError: divisibility"
    /\ Len(layers) = 2
    /\ argsPre.hidden_hidden_size = Absent
    /\ args.hidden_hidden_size = 4 * args.hidden_size
    /\ argsPre.top_k = Absent
    /\ args.top_k = 2
    /\ layers = layersPre

===========================================================================
